---- MODULE Spec2Model ----
(***************************************************************************)
(* Model of the instrument database of epicsapps                           *)
(* (src/epicsapps/instruments/instrument.py, utils.py).                    *)
(*                                                                         *)
(* Strings the code inspects character by character (names that are       *)
(* stripped, PV names that are normalized, version strings that are       *)
(* compared) are sequences of tokens.  Tables are sets of rows.  The       *)
(* row-level primitives of SimpleDB (get_rows, add_row, insert, update,    *)
(* delete_rows) live in simpledb.py, which is not part of the sources at   *)
(* hand; they are modelled from section 4.2 of the specification.          *)
(***************************************************************************)
EXTENDS Integers, Sequences, FiniteSets, TLC

VARIABLES
    instrument,     \* table instrument:    rows [id, name]
    pv,             \* table pv:            rows [id, name]
    instrument_pv,  \* table instrument_pv: rows [id, instrument_id, pv_id, display_order]
    position,       \* table position:      rows [id, name, instrument_id, notes, modify_time]
    position_pv,    \* table position_pv:   rows [id, position_id, pv_id, value, notes]
    pvs,            \* self.pvs: the names that have a live handle in the cache
    modify_date,    \* info['modify_date']: "create" until the first commit()
    last,           \* the last call of the database interface and its outcome
    version,        \* info['version'], a string
    vlog,           \* per check_version call made so far, what it did, in order
    pc,             \* position of the restore_position call
    r_wait,         \* restore_position argument wait
    r_timeout,      \* restore_position argument timeout (clock ticks)
    now,            \* time.time() (clock ticks)
    t0,             \* restore_position local t0
    ordered_pvs,    \* restore_position local ordered_pvs (a dict)
    idx,            \* index of the next entry of ordered_pvs the for loop visits
    work_pvs,       \* restore_position local work_pvs (list of channel names)
    connected,      \* per channel: what thispv.connected() returns
    put_complete,   \* per channel: the handle's put_complete flag
    writes,         \* the writes put on the wire by this call, in order
    attempted,      \* channel names for which the put statement was reached
    polls,          \* number of passes through the body of the poll loop
    complete,       \* restore_position local complete (the return value)
    r_exc,          \* exception leaving restore_position, "none" if none
    files,          \* the database file and its backups: per suffix, the content
    creates         \* number of create_newdb calls made so far

dbvars   == <<instrument, pv, instrument_pv, position, position_pv, pvs,
             modify_date, last>>
vervars  == <<version, vlog>>
resvars  == <<pc, r_wait, r_timeout, now, t0, ordered_pvs, idx, work_pvs,
             connected, put_complete, writes, attempted,
             polls, complete, r_exc>>
fsvars   == <<files, creates>>
vars     == <<dbvars, vervars, resvars, fsvars>>

(***************************************************************************)
(* Bounds of the model.                                                    *)
(***************************************************************************)
MaxPvs       == 2    \* length of the pvs argument of add_instrument
MaxPos       == 2    \* position rows
MaxValueRows == 2    \* position_pv rows
MaxRowId     == 3    \* largest id of a position or position_pv row
ConnTimeout  == 40   \* wait_for_connection(timeout=1.0), in sleeps of 0.025 s
MaxStart     == 1    \* latest clock reading at the start of restore_position
MaxTimeout   == 2    \* largest timeout argument of restore_position
MaxSleep     == 2    \* longest time one time.sleep(0.025) takes
MaxVerLen    == 4    \* longest stored version string
MaxVerCalls  == 3    \* check_version calls in one behaviour
MaxCreates   == 3    \* create_newdb calls in one behaviour

(***************************************************************************)
(* Python values.                                                          *)
(***************************************************************************)
NoneVal == 0                \* Python None where a number or row id is expected
NoRow  == [id |-> 0]        \* None where a row is expected
Vals   == {1, 2}            \* values a channel can take
NoNotes == "None"
NotesInputs == {NoNotes}    \* the notes argument of save_position

Max(S) == CHOOSE x \in S : \A y \in S : y <= x

\* str.strip(): whitespace removed at both ends
RECURSIVE lstrip(_)
lstrip(s) == IF s # <<>> /\ Head(s) = " " THEN lstrip(Tail(s)) ELSE s

RECURSIVE rstrip(_)
rstrip(s) == IF s # <<>> /\ s[Len(s)] = " "
             THEN rstrip(SubSeq(s, 1, Len(s) - 1)) ELSE s

strip(s) == rstrip(lstrip(s))

\* a dict is a sequence of entries [k, v] with distinct keys, in insertion order
DictHas(d, k) == \E n \in 1..Len(d) : d[n].k = k
DictGet(d, k) == (CHOOSE n \in 1..Len(d) : d[n].k = k)
DictVal(d, k) == d[DictGet(d, k)].v
DictSet(d, k, v) ==
    IF DictHas(d, k)
    THEN [n \in 1..Len(d) |-> IF d[n].k = k THEN [k |-> k, v |-> v] ELSE d[n]]
    ELSE Append(d, [k |-> k, v |-> v])
DictKeys(d) == [n \in 1..Len(d) |-> d[n].k]

(***************************************************************************)
(* utils.py                                                                *)
(***************************************************************************)
normalize_pvname(pvname) ==
    IF \E n \in 1..Len(pvname) : pvname[n] = "."
    THEN pvname
    ELSE pvname \o <<".", "VAL">>

\* backup_versions(fname, max=5): the default of max
BackupMax == 5

\* The file fname and its backups.  The name "%s_%i%s" % (base, i, ext) is
\* the suffix i; suffix 0 is fname itself.  A file is known by its content.
Suffixes == 0..(BackupMax + 1)
NoFile   == <<>>
NoFiles  == [i \in Suffixes |-> NoFile]

\* as Move below, but the source is left in place
CopyFile(fs, src, dst) == [fs EXCEPT ![dst] = fs[src]]

\* shutil.move(src, dst) between two file names: dst is replaced.  The move is
\* taken to succeed; the except branches around it serve a failing file system
Move(fs, src, dst) == [fs EXCEPT ![dst] = fs[src], ![src] = NoFile]

\* the loop "for i in range(max-1, 0, -1)", from i downwards
RECURSIVE ShiftFrom(_, _)
ShiftFrom(fs, i) ==
    IF i < 1 THEN fs
    ELSE ShiftFrom(IF fs[i] # NoFile THEN Move(fs, i, i + 1) ELSE fs, i - 1)

backup_versions(fs, max) ==
    IF fs[0] = NoFile THEN fs
    ELSE Move(ShiftFrom(fs, max - 1), 0, 1)

(***************************************************************************)
(* SimpleDB primitives over one table (a set of rows).                     *)
(***************************************************************************)
\* the id a new row gets: an integer primary key, one above the largest in use
NewId(rows) == IF rows = {} THEN 1 ELSE Max({r.id : r \in rows}) + 1

\* get_rows(..., limit_one=True, none_if_empty=True)
LimitOne(rows) ==
    IF rows = {} THEN NoRow
    ELSE CHOOSE r \in rows : \A q \in rows : r.id <= q.id

\* get_rows(..., order_by='display_order'): rows as a sequence
RECURSIVE OrderByDisplay(_)
OrderByDisplay(rows) ==
    IF rows = {} THEN <<>>
    ELSE LET r == CHOOSE x \in rows : \A y \in rows :
                      \/ x.display_order < y.display_order
                      \/ x.display_order = y.display_order /\ x.id <= y.id
         IN  <<r>> \o OrderByDisplay(rows \ {r})

\* get_rows without order_by: rows in the order of their ids
RECURSIVE OrderById(_)
OrderById(rows) ==
    IF rows = {} THEN <<>>
    ELSE LET r == CHOOSE x \in rows : \A y \in rows : x.id <= y.id
         IN  <<r>> \o OrderById(rows \ {r})

(***************************************************************************)
(* The tables as one value, so that a handler's statements can be chained. *)
(***************************************************************************)
DB == [instrument |-> instrument, pv |-> pv, instrument_pv |-> instrument_pv,
       position |-> position, position_pv |-> position_pv]

get_instrument(db, name) ==
    LimitOne({r \in db.instrument : r.name = name})

\* {row.id: row.name}, as a function
get_allpvs(db) == [i \in {r.id : r \in db.pv} |-> (CHOOSE r \in db.pv : r.id = i).name]

\* get_pv: the row found, and the pv table after the rename it may perform
get_pv(db, name) ==
    LET norm_name == normalize_pvname(name)
        row1 == LimitOne({r \in db.pv : r.name = norm_name})
        row2 == LimitOne({r \in db.pv : r.name = name})
    IN  IF row1.id = 0 /\ norm_name # name
        THEN [row |-> row2,
              pv  |-> IF row2.id # 0
                      THEN {IF r.name = name THEN [r EXCEPT !.name = norm_name] ELSE r
                              : r \in db.pv}
                      ELSE db.pv]
        ELSE [row |-> row1, pv |-> db.pv]

\* add_pv: returns None for a known name; for an unknown one the statement
\* kws['notes'] = notes reads a name that is bound nowhere and raises NameError
add_pv(db, name) ==
    LET out == get_pv(db, normalize_pvname(name))
    IN  IF out.row.id # 0
        THEN [exc |-> "none", row |-> NoRow, pv |-> out.pv]
        ELSE [exc |-> "NameError", row |-> NoRow, pv |-> out.pv]

get_position(db, name, instname) ==
    LET iid == get_instrument(db, instname).id
    IN  LimitOne({r \in db.position : r.name = name /\ r.instrument_id = iid})

get_positions(db, instname) ==
    LET iid == get_instrument(db, instname).id
    IN  OrderById({r \in db.position : r.instrument_id = iid})

\* the membership rows of an instrument in display order
MembershipRows(db, iid) ==
    OrderByDisplay({r \in db.instrument_pv : r.instrument_id = iid})

\* get_instrument_pvs: dict {pvname: pv_id} filled in display order
RECURSIVE InstPvsFrom(_, _, _)
InstPvsFrom(rows, allpvs, d) ==
    IF rows = <<>> THEN d
    ELSE InstPvsFrom(Tail(rows), allpvs,
                     DictSet(d, allpvs[Head(rows).pv_id], Head(rows).pv_id))

get_instrument_pvs(db, instname) ==
    InstPvsFrom(MembershipRows(db, get_instrument(db, instname).id),
                get_allpvs(db), <<>>)

(***************************************************************************)
(* Inputs of the database interface.                                       *)
(***************************************************************************)
A_VAL == <<"a", ".", "VAL">>
B_VAL == <<"b", ".", "VAL">>
NewInstNames   == {<<"i">>, <<"j", " ">>}     \* names given to add_instrument
OneInstName    == {<<"i", " ">>}
InstNameInputs == {<<"i">>, <<"j">>}          \* names instruments are looked up by
PosNameInputs  == {<<"p">>, <<"q", " ">>}
PvNameInputs   == {<<"a">>, B_VAL, <<"c">>}
ValueKeys      == {A_VAL, B_VAL, <<"name">>}
\* values mappings: any set of keys; a.VAL holds 1, b.VAL holds 2, 'name' either
ValuesInputs   == {f \in UNION {[K -> Vals] : K \in SUBSET ValueKeys} :
                     /\ A_VAL \in DOMAIN f => f[A_VAL] = 1
                     /\ B_VAL \in DOMAIN f => f[B_VAL] = 2}
\* values mappings that hold every key
FullValues     == {f \in ValuesInputs : DOMAIN f = ValueKeys}
PvsInputs      == UNION {[1..n -> PvNameInputs] : n \in 0..MaxPvs}

\* the last call: its name, the exception it raised ("none" if it returned),
\* the names listed in the exception message, and the value it returned
NoCall == [op |-> "none", exc |-> "none", msg |-> <<>>, ret |-> <<>>]

(***************************************************************************)
(* add_instrument                                                          *)
(***************************************************************************)
\* the loop "for pvname in pvs" of add_instrument: the ids collected, the pv
\* table after the lookups, and the exception that ends the loop early
RECURSIVE PvListFrom(_, _, _)
PvListFrom(db, names, pvlist) ==
    IF names = <<>> THEN [exc |-> "none", pvlist |-> pvlist, pv |-> db.pv]
    ELSE LET g == get_pv(db, Head(names))
         IN  IF g.row.id # 0
             THEN PvListFrom([db EXCEPT !.pv = g.pv], Tail(names),
                             Append(pvlist, g.row.id))
             ELSE LET a == add_pv([db EXCEPT !.pv = g.pv], Head(names))
                  IN  IF a.exc # "none"
                      THEN [exc |-> a.exc, pvlist |-> pvlist, pv |-> a.pv]
                      ELSE \* thispv is None: thispv.id
                           [exc |-> "AttributeError", pvlist |-> pvlist, pv |-> a.pv]

\* the loop "for i, pvid in enumerate(pvlist)": one membership row per entry
RECURSIVE AddMemberships(_, _, _, _)
AddMemberships(rows, iid, pvlist, i) ==
    IF i >= Len(pvlist) THEN rows
    ELSE AddMemberships(rows \cup {[id |-> NewId(rows), instrument_id |-> iid,
                                    pv_id |-> pvlist[i + 1], display_order |-> i]},
                        iid, pvlist, i + 1)

\* add_instrument; instrument names are unique, so add_row refuses a name
\* that is in use; commit() is reached only when nothing was raised
add_instrument(db, name, given, names) ==
    LET kname == strip(name)
    IN  IF \E r \in db.instrument : r.name = kname
        THEN [db |-> db, exc |-> "IntegrityError", commit |-> FALSE]
        ELSE
        LET inst == [id |-> NewId(db.instrument), name |-> kname]
            db1  == [db EXCEPT !.instrument = @ \cup {inst}]
        IN  IF ~given THEN [db |-> db1, exc |-> "none", commit |-> TRUE]
            ELSE
            LET l == PvListFrom(db1, names, <<>>)
                db2 == [db1 EXCEPT !.pv = l.pv]
            IN  IF l.exc # "none" THEN [db |-> db2, exc |-> l.exc, commit |-> FALSE]
                ELSE [db |-> [db2 EXCEPT !.instrument_pv =
                                  AddMemberships(@, inst.id, l.pvlist, 0)],
                      exc |-> "none", commit |-> TRUE]

(***************************************************************************)
(* save_position                                                           *)
(***************************************************************************)
\* as MissingPvs below, but only the first entry of instpvs is looked at
MissingPvsFirstOnly(instpvs, values) ==
    IF instpvs = <<>> \/ Head(instpvs).k \in DOMAIN values THEN <<>>
    ELSE <<Head(instpvs).k>>

\* the names of instpvs that values does not hold, in the order of instpvs
RECURSIVE MissingPvs(_, _)
MissingPvs(instpvs, values) ==
    IF instpvs = <<>> THEN <<>>
    ELSE (IF Head(instpvs).k \in DOMAIN values THEN <<>> ELSE <<Head(instpvs).k>>)
         \o MissingPvs(Tail(instpvs), values)

\* the key the insert loop of save_position reads values with: the literal 'name'
ValueKey(name) == <<"name">>

\* the loop "for name, pvid in instpvs.items()": one insert per entry; reading
\* values with a key it does not hold raises KeyError
RECURSIVE InsertValues(_, _, _, _, _)
InsertValues(rows, instpvs, posid, values, note) ==
    IF instpvs = <<>> THEN [exc |-> "none", rows |-> rows]
    ELSE IF ValueKey(Head(instpvs).k) \notin DOMAIN values
         THEN [exc |-> "KeyError", rows |-> rows]
         ELSE InsertValues(rows \cup {[id |-> NewId(rows), position_id |-> posid,
                                       pv_id |-> Head(instpvs).v,
                                       value |-> values[ValueKey(Head(instpvs).k)],
                                       notes |-> note]},
                           Tail(instpvs), posid, values, note)

\* the position row save_position goes on with, and the position table: a new
\* row, or the existing one with modify_time (and notes, when given) updated
\* (update hands back the row it updated, as add_row hands back the new one;
\* on the update path modify_time is given datetime.now, the function itself)
UpsertPosition(db, posname, instname, inst, notes) ==
    LET pos == get_position(db, posname, instname)
    IN  IF pos.id = 0
        THEN LET new == [id |-> NewId(db.position), name |-> posname,
                         instrument_id |-> inst.id, notes |-> notes,
                         modify_time |-> "datetime.now()"]
             IN  [pos |-> new, position |-> db.position \cup {new}]
        ELSE LET upd(r) == [r EXCEPT !.modify_time = "datetime.now",
                                     !.notes = IF notes # NoNotes THEN notes ELSE @]
             IN  [pos |-> upd(pos),
                  position |-> {IF r.name = posname /\ r.instrument_id = inst.id
                                THEN upd(r) ELSE r : r \in db.position}]

save_position(db, posname0, instname, values, notes) ==
    LET inst == get_instrument(db, instname)
    IN  IF inst.id = 0
        THEN [db |-> db, exc |-> "InstrumentDBException", msg |-> <<>>]
        ELSE
        LET posname == strip(posname0)
            u       == UpsertPosition(db, posname, instname, inst, notes)
            db1     == [db EXCEPT !.position = u.position]
            instpvs == get_instrument_pvs(db1, instname)
            missing_pvs == MissingPvs(instpvs, values)
        IN  IF Len(missing_pvs) > 0
            THEN [db |-> db1, exc |-> "InstrumentDBException", msg |-> missing_pvs]
            ELSE LET ins == InsertValues(db1.position_pv, instpvs, u.pos.id, values,
                                         <<inst.name, posname>>)
                 IN  [db |-> [db1 EXCEPT !.position_pv = ins.rows],
                      exc |-> ins.exc, msg |-> <<>>]

(***************************************************************************)
(* get_ordered_position                                                    *)
(***************************************************************************)
\* pvvals: the value of the last position_pv row read for each pv_id
PvVals(db, posid) ==
    LET rows == {r \in db.position_pv : r.position_id = posid}
    IN  [i \in {r.pv_id : r \in rows} |->
            (CHOOSE r \in rows : r.pv_id = i /\
                 \A q \in rows : q.pv_id = i => q.id <= r.id).value]

\* as OrderedFrom below, but a membership row without a stored value is left out
RECURSIVE OrderedFromSkipNone(_, _, _, _)
OrderedFromSkipNone(rows, allpvs, pvvals, d) ==
    IF rows = <<>> THEN d
    ELSE LET row == Head(rows)
         IN  OrderedFromSkipNone(Tail(rows), allpvs, pvvals,
                 IF row.pv_id \in DOMAIN pvvals
                 THEN DictSet(d, allpvs[row.pv_id], pvvals[row.pv_id])
                 ELSE d)

RECURSIVE OrderedFrom(_, _, _, _)
OrderedFrom(rows, allpvs, pvvals, d) ==
    IF rows = <<>> THEN d
    ELSE LET row == Head(rows)
         IN  OrderedFrom(Tail(rows), allpvs, pvvals,
                 DictSet(d, allpvs[row.pv_id],
                         IF row.pv_id \in DOMAIN pvvals THEN pvvals[row.pv_id]
                         ELSE NoneVal))

get_ordered_position(db, posname0, instname, exclude_pvs) ==
    LET inst == get_instrument(db, instname)
    IN  IF inst.id = 0 THEN [exc |-> "InstrumentDBException", ret |-> <<>>]
        ELSE
        LET posname == strip(posname0)
            pos     == get_position(db, posname, instname)
        IN  IF pos.id = 0 THEN [exc |-> "InstrumentDBException", ret |-> <<>>]
            ELSE [exc |-> "none",
                  ret |-> OrderedFrom(MembershipRows(db, inst.id), get_allpvs(db),
                                      PvVals(db, pos.id), <<>>)]

(***************************************************************************)
(* remove_position, remove_instrument                                      *)
(***************************************************************************)
remove_position(db, posname0, instname) ==
    LET inst == get_instrument(db, instname)
    IN  IF inst.id = 0 THEN [db |-> db, exc |-> "InstrumentDBException"]
        ELSE
        LET posname == strip(posname0)
            pos     == get_position(db, posname, instname)
        IN  IF pos.id = 0 THEN [db |-> db, exc |-> "InstrumentDBException"]
            ELSE [db |-> [db EXCEPT
                     !.position_pv = {r \in @ : r.position_id # pos.id
                                                /\ r.position_id # NoneVal},
                     !.position    = {r \in @ : r.id # pos.id}],
                  exc |-> "none"]

\* the loop "for pos in self.get_positions(instname)"
RECURSIVE RemovePositions(_, _, _)
RemovePositions(db, rows, instname) ==
    IF rows = <<>> THEN [db |-> db, exc |-> "none"]
    ELSE LET r == remove_position(db, Head(rows).name, instname)
         IN  IF r.exc # "none" THEN r
             ELSE RemovePositions(r.db, Tail(rows), instname)

\* the three delete_rows calls that end remove_instrument
DeleteInstrumentRows(db, inst) ==
    [db EXCEPT !.position      = {r \in @ : r.instrument_id # inst.id},
               !.instrument_pv = {r \in @ : r.instrument_id # inst.id
                                            /\ r.id # inst.id}]

remove_instrument(db, instname) ==
    LET inst == get_instrument(db, instname)
    IN  IF inst.id = 0 THEN [db |-> db, exc |-> "InstrumentDBException"]
        ELSE LET r == RemovePositions(db, get_positions(db, instname), instname)
             IN  IF r.exc # "none" THEN r
                 ELSE [db |-> DeleteInstrumentRows(r.db, inst), exc |-> "none"]

(***************************************************************************)
(* The database interface as a state machine: one action per call.         *)
(***************************************************************************)
\* as connect_pvs below, but only the first row of the pv table gets a handle
connect_pvs_first(db) ==
    {r.name : r \in {q \in db.pv : \A x \in db.pv : q.id <= x.id}}

\* connect_pvs: a handle for every row of the pv table
connect_pvs(db) == {r.name : r \in db.pv}

InitTables ==
    /\ instrument = {}
    /\ pv = {[id |-> 1, name |-> A_VAL], [id |-> 2, name |-> B_VAL]}
    /\ instrument_pv = {}
    /\ position = {}
    /\ position_pv = {}
    /\ pvs = connect_pvs([pv |-> pv])
    /\ modify_date = "create"
    /\ last = NoCall

SetTables(db) ==
    /\ instrument' = db.instrument
    /\ pv' = db.pv
    /\ instrument_pv' = db.instrument_pv
    /\ position' = db.position
    /\ position_pv' = db.position_pv

\* add_instrument(name, pvs) with name among newnames
AddInstrument(newnames) ==
    \E name \in newnames, given \in BOOLEAN, names \in PvsInputs :
        /\ ~given => names = <<>>
        /\ LET r == add_instrument(DB, name, given, names)
           IN  /\ SetTables(r.db)
               /\ modify_date' = IF r.commit THEN "commit" ELSE modify_date
               /\ last' = [NoCall EXCEPT !.op = "add_instrument", !.exc = r.exc]
        /\ UNCHANGED pvs

\* save_position(posname, instname, values, notes) with values among valuesSet
SavePosition(valuesSet) ==
    \E posname \in PosNameInputs, instname \in InstNameInputs,
       values \in valuesSet, notes \in NotesInputs :
        LET r == save_position(DB, posname, instname, values, notes)
        IN  /\ Cardinality(r.db.position) <= MaxPos
            /\ Cardinality(r.db.position_pv) <= MaxValueRows
            /\ \A row \in r.db.position \cup r.db.position_pv : row.id <= MaxRowId
            /\ SetTables(r.db)
            /\ last' = [NoCall EXCEPT !.op = "save_position", !.exc = r.exc,
                                      !.msg = r.msg]
            /\ UNCHANGED <<pvs, modify_date>>

GetOrderedPosition ==
    \E posname \in PosNameInputs, instname \in InstNameInputs :
        LET r == get_ordered_position(DB, posname, instname, <<>>)
        IN  /\ last' = [NoCall EXCEPT !.op = "get_ordered_position",
                                      !.exc = r.exc, !.ret = r.ret]
            /\ UNCHANGED <<instrument, pv, instrument_pv, position, position_pv,
                           pvs, modify_date>>

RemovePosition ==
    \E posname \in PosNameInputs, instname \in InstNameInputs :
        LET r == remove_position(DB, posname, instname)
        IN  /\ SetTables(r.db)
            /\ last' = [NoCall EXCEPT !.op = "remove_position", !.exc = r.exc]
            /\ UNCHANGED <<pvs, modify_date>>

RemoveInstrument ==
    \E instname \in InstNameInputs :
        LET r == remove_instrument(DB, instname)
        IN  /\ SetTables(r.db)
            /\ last' = [NoCall EXCEPT !.op = "remove_instrument", !.exc = r.exc]
            /\ UNCHANGED <<pvs, modify_date>>

(***************************************************************************)
(* Variables a specification does not use stay at these values.            *)
(***************************************************************************)
IdleVersion == version = <<>> /\ vlog = <<>>

IdleRestore ==
    /\ pc = "idle" /\ r_wait = FALSE /\ r_timeout = 0 /\ now = 0 /\ t0 = 0
    /\ ordered_pvs = <<>> /\ idx = 0 /\ work_pvs = <<>>
    /\ connected = <<>> /\ put_complete = <<>>
    /\ writes = <<>> /\ attempted = {} /\ polls = 0 /\ complete = FALSE
    /\ r_exc = "none"

IdleFiles == files = NoFiles /\ creates = 0

(***************************************************************************)
(* Spec: saving and reading back the positions of an instrument.           *)
(***************************************************************************)
Init == InitTables /\ IdleVersion /\ IdleRestore /\ IdleFiles

Next ==
    \/ AddInstrument(OneInstName) /\ UNCHANGED <<vervars, resvars, fsvars>>
    \/ SavePosition(ValuesInputs) /\ UNCHANGED <<vervars, resvars, fsvars>>
    \/ GetOrderedPosition /\ UNCHANGED <<vervars, resvars, fsvars>>

Spec == Init /\ [][Next]_vars

(***************************************************************************)
(* SpecRemove: removing positions and instruments when several instruments *)
(* share the tables.                                                       *)
(***************************************************************************)
NextRemove ==
    \/ AddInstrument(NewInstNames) /\ UNCHANGED <<vervars, resvars, fsvars>>
    \/ SavePosition(FullValues) /\ UNCHANGED <<vervars, resvars, fsvars>>
    \/ RemovePosition /\ UNCHANGED <<vervars, resvars, fsvars>>
    \/ RemoveInstrument /\ UNCHANGED <<vervars, resvars, fsvars>>

SpecRemove == Init /\ [][NextRemove]_vars

(***************************************************************************)
(* Properties of the database interface.  Each is stated for every call    *)
(* that can be made in a reachable state of the tables.                    *)
(***************************************************************************)
\* the membership rows of the instrument named instname, and their channels
MemberRows(instname) ==
    {r \in instrument_pv : r.instrument_id = get_instrument(DB, instname).id}
PvName(pvid) == (CHOOSE r \in pv : r.id = pvid).name
MemberNames(instname) == {PvName(r.pv_id) : r \in MemberRows(instname)}
Exists(instname) == get_instrument(DB, instname).id # 0
Range(seq) == {seq[n] : n \in 1..Len(seq)}

\* C3: save_position with values that lack a member channel of the instrument
\* raises the exception that lists exactly the missing channels, and leaves
\* the position_pv table as it was.
C3_IncompleteSaveWritesNoValue ==
    \A posname \in PosNameInputs, instname \in InstNameInputs,
       values \in ValuesInputs, notes \in NotesInputs :
        LET r == save_position(DB, posname, instname, values, notes)
            missing == MemberNames(instname) \ DOMAIN values
        IN  (Exists(instname) /\ missing # {}) =>
                /\ r.exc = "InstrumentDBException"
                /\ Range(r.msg) = missing
                /\ r.db.position_pv = position_pv

\* a save was refused for missing channels while value rows were stored
C3_Witness ==
    /\ last.op = "save_position"
    /\ last.exc = "InstrumentDBException"
    /\ last.msg # <<>>
    /\ position_pv # {}

\* C4: save_position with values covering every member channel, followed by
\* get_ordered_position, returns values[c] for every member channel c.
C4_SaveGetRoundTrip ==
    \A posname \in PosNameInputs, instname \in InstNameInputs,
       values \in ValuesInputs, notes \in NotesInputs :
        LET r == save_position(DB, posname, instname, values, notes)
            g == get_ordered_position(r.db, posname, instname, <<>>)
        IN  (Exists(instname) /\ MemberNames(instname) \subseteq DOMAIN values) =>
                /\ r.exc = "none"
                /\ g.exc = "none"
                /\ \A c \in MemberNames(instname) :
                       DictHas(g.ret, c) /\ DictVal(g.ret, c) = values[c]

\* the existing instrument/position pairs
Pairs ==
    {pi \in PosNameInputs \X InstNameInputs :
        /\ Exists(pi[2])
        /\ get_position(DB, strip(pi[1]), pi[2]).id # 0}

\* lowest display_order among the membership rows of channel c
FirstOrder(instname, c) ==
    CHOOSE o \in {r.display_order : r \in {q \in MemberRows(instname) :
                                             PvName(q.pv_id) = c}} :
        \A r \in MemberRows(instname) : PvName(r.pv_id) = c => o <= r.display_order

\* C5 as stated: get_ordered_position returns one entry per membership row,
\* the n-th entry being the channel of the row with the n-th display_order.
C5_OneEntryPerMembershipRow ==
    \A pi \in Pairs :
        LET g == get_ordered_position(DB, pi[1], pi[2], <<>>)
            rows == MemberRows(pi[2])
        IN  /\ g.exc = "none"
            /\ Len(g.ret) = Cardinality(rows)
            /\ \A n \in 1..Len(g.ret) : \E r \in rows :
                   /\ PvName(r.pv_id) = g.ret[n].k
                   /\ Cardinality({q \in rows : q.display_order < r.display_order})
                        = n - 1

\* C5 amended: get_ordered_position returns one entry per distinct member
\* channel (none for an instrument without members), the entries ordered by
\* the lowest display_order of each channel's membership rows.
C5_OneEntryPerChannelInDisplayOrder ==
    \A pi \in Pairs :
        LET g == get_ordered_position(DB, pi[1], pi[2], <<>>)
            keys == DictKeys(g.ret)
        IN  /\ g.exc = "none"
            /\ Range(keys) = MemberNames(pi[2])
            /\ \A n, m \in 1..Len(keys) :
                   n < m => FirstOrder(pi[2], keys[n]) < FirstOrder(pi[2], keys[m])

\* get_ordered_position returned two entries for an existing pair
C5_Witness ==
    /\ last.op = "get_ordered_position"
    /\ last.exc = "none"
    /\ Len(last.ret) = 2

\* C6: after a save_position call that returns, the position exists once for
\* its instrument and trimmed name, and holds exactly one position_pv row for
\* every member channel, also when the position had been saved before.
C6_OneValueRowPerMember ==
    \A posname \in PosNameInputs, instname \in InstNameInputs,
       values \in ValuesInputs, notes \in NotesInputs :
        LET r == save_position(DB, posname, instname, values, notes)
            inst == get_instrument(DB, instname)
            rows == {q \in r.db.position :
                        q.instrument_id = inst.id /\ q.name = strip(posname)}
        IN  (Exists(instname) /\ r.exc = "none") =>
                /\ Cardinality(rows) = 1
                /\ \A p \in rows : \A m \in MemberRows(instname) :
                       Cardinality({v \in r.db.position_pv :
                           v.position_id = p.id /\ v.pv_id = m.pv_id}) = 1

\* C7: after remove_instrument on an existing instrument no position,
\* position_pv or instrument_pv row of it remains, and its instrument row is
\* deleted.
C7_RemoveInstrumentLeavesNoRow ==
    \A instname \in InstNameInputs :
        LET r == remove_instrument(DB, instname)
            inst == get_instrument(DB, instname)
            posids == {q.id : q \in {x \in position : x.instrument_id = inst.id}}
        IN  Exists(instname) =>
                /\ r.exc = "none"
                /\ \A q \in r.db.position : q.instrument_id # inst.id
                /\ \A v \in r.db.position_pv : v.position_id \notin posids
                /\ \A m \in r.db.instrument_pv : m.instrument_id # inst.id
                /\ \A i \in r.db.instrument : i.id # inst.id

\* the rows of db that belong to instruments other than the one with id iid
OtherRows(db, iid) ==
    LET pos == {q \in db.position : q.instrument_id # iid}
    IN  [position      |-> pos,
         position_pv   |-> {v \in db.position_pv :
                               v.position_id \in {q.id : q \in pos}},
         instrument_pv |-> {m \in db.instrument_pv : m.instrument_id # iid}]

\* C8: remove_instrument and remove_position leave every position,
\* position_pv and instrument_pv row of the other instruments as it was.
C8_RemoveLeavesOtherInstruments ==
    \A instname \in InstNameInputs : \A posname \in PosNameInputs :
        LET inst == get_instrument(DB, instname)
            ri == remove_instrument(DB, instname)
            rp == remove_position(DB, posname, instname)
        IN  Exists(instname) =>
                /\ OtherRows(ri.db, inst.id) = OtherRows(DB, inst.id)
                /\ OtherRows(rp.db, inst.id) = OtherRows(DB, inst.id)

\* the exclude_pvs lists get_ordered_position is called with
ExcludeInputs == {<<>>, <<A_VAL>>, <<B_VAL>>, <<A_VAL, B_VAL>>}

\* C11: get_ordered_position called with an exclude list returns no entry for
\* a channel named in the list, and still returns every other member channel,
\* in display order.
C11_ExcludeFiltersChannels ==
    \A pi \in Pairs, exclude \in ExcludeInputs :
        LET g == get_ordered_position(DB, pi[1], pi[2], exclude)
            keys == DictKeys(g.ret)
        IN  /\ g.exc = "none"
            /\ Range(keys) = MemberNames(pi[2]) \ Range(exclude)
            /\ \A n, m \in 1..Len(keys) :
                   n < m => FirstOrder(pi[2], keys[n]) < FirstOrder(pi[2], keys[m])

\* C14: a save_position call that is refused (unknown instrument, or values
\* that lack a member channel) leaves the position table as it was.
C14_RefusedSaveLeavesPositions ==
    \A posname \in PosNameInputs, instname \in InstNameInputs,
       values \in ValuesInputs, notes \in NotesInputs :
        LET r == save_position(DB, posname, instname, values, notes)
        IN  r.exc = "InstrumentDBException" => r.db.position = position

(***************************************************************************)
(* check_version.  Version strings are sequences of characters, compared   *)
(* the way Python compares strings: by code point, a proper prefix first.  *)
(***************************************************************************)
VerDigits == {"0", "1", "2", "3", "4"}
VerChars  == VerDigits \cup {"."}

\* ord(c) for the characters of version strings
Ord(c) == CASE c = "." -> 46 [] c = "0" -> 48 [] c = "1" -> 49 [] c = "2" -> 50
            [] c = "3" -> 51 [] c = "4" -> 52

\* a < b for strings
RECURSIVE StrLess(_, _)
StrLess(a, b) ==
    IF b = <<>> THEN FALSE
    ELSE IF a = <<>> THEN TRUE
    ELSE IF Head(a) # Head(b) THEN Ord(Head(a)) < Ord(Head(b))
    ELSE StrLess(Tail(a), Tail(b))

V12 == <<"1", ".", "2">>
V13 == <<"1", ".", "3">>

\* one upgrade of check_version: the statements of upgrades.sqlcode[target]
\* are executed, then the version is recorded
UpgradeTo(target, stored) ==
    <<[ev |-> "execute", target |-> target, stored |-> stored],
      [ev |-> "set_info", target |-> target, stored |-> stored]>>

\* as check_version below, but the upgrade to 1.3 does not record the version
check_version_unrecorded(stored) ==
    LET version_string == stored
        s1   == IF StrLess(version_string, V12) THEN UpgradeTo(V12, stored) ELSE <<>>
        v1   == IF StrLess(version_string, V12) THEN V12 ELSE stored
        s2   == IF StrLess(version_string, V13) THEN <<UpgradeTo(V13, v1)[1]>> ELSE <<>>
    IN  [version |-> v1, log |-> s1 \o s2]

\* check_version: the stored version afterwards and what was done, in order
check_version(stored) ==
    LET version_string == stored
        s1   == IF StrLess(version_string, V12) THEN UpgradeTo(V12, stored) ELSE <<>>
        v1   == IF StrLess(version_string, V12) THEN V12 ELSE stored
        s2   == IF StrLess(version_string, V13) THEN UpgradeTo(V13, v1) ELSE <<>>
        v2   == IF StrLess(version_string, V13) THEN V13 ELSE v1
    IN  [version |-> v2, log |-> s1 \o s2]

\* the version strings a database file may hold: digit "." digits
StoredVersions ==
    {v \in UNION {[1..n -> VerChars] : n \in 3..MaxVerLen} :
        \A k \in 1..Len(v) : (v[k] = ".") <=> (k = 2)}

InitVersion ==
    /\ InitTables
    /\ IdleRestore
    /\ IdleFiles
    /\ version \in StoredVersions
    /\ vlog = <<>>

CheckVersion ==
    /\ Len(vlog) < MaxVerCalls
    /\ LET r == check_version(version)
       IN  /\ version' = r.version
           /\ vlog' = Append(vlog, r.log)

NextVersion == CheckVersion /\ UNCHANGED <<dbvars, resvars, fsvars>>

SpecVersion == InitVersion /\ [][NextVersion]_vars

\* C9: a check_version call that follows another executes nothing and leaves
\* the stored version as it is; and within a call an upgrade is executed only
\* while the stored version is below its target, the upgrades come in
\* ascending order of target, and each is followed by recording its target.
C9_CheckVersionIdempotent ==
    /\ \A n \in 2..Len(vlog) : vlog[n] = <<>>
    /\ Len(vlog) >= 1 => check_version(version) = [version |-> version, log |-> <<>>]
    /\ \A n \in 1..Len(vlog) : LET log == vlog[n] IN
         /\ Len(log) % 2 = 0
         /\ \A k \in 1..Len(log) :
              /\ log[k].ev = (IF k % 2 = 1 THEN "execute" ELSE "set_info")
              /\ k % 2 = 1 => /\ StrLess(log[k].stored, log[k].target)
                              /\ log[k + 1].target = log[k].target
              /\ k + 2 <= Len(log) => StrLess(log[k].target, log[k + 2].target)
         /\ (n = Len(vlog) /\ log # <<>>) => version = log[Len(log)].target

\* a call that upgraded through both versions was followed by a second call
C9_Witness ==
    /\ Len(vlog) = 2
    /\ Len(vlog[1]) = 4
    /\ vlog[2] = <<>>

(***************************************************************************)
(* restore_position, statement by statement.  The clock counts ticks of    *)
(* 0.025 s, the length of the sleep in the poll loop.  The channels are    *)
(* the environment: a connection comes and goes, and the completion        *)
(* callback of an outstanding put sets the handle's put_complete flag.     *)
(***************************************************************************)
EmptyDB == [instrument |-> {}, instrument_pv |-> {}, position |-> {},
            position_pv |-> {},
            pv |-> {[id |-> 1, name |-> A_VAL], [id |-> 2, name |-> B_VAL]}]

\* the instruments restore_position is tried on: no channel, one, two in
\* either order; and the values mappings their position was saved with
RestorePvsInputs == {<<>>, <<A_VAL>>, <<A_VAL, B_VAL>>, <<B_VAL, A_VAL>>}
RestoreValues    == {f \in ValuesInputs : DOMAIN f \in {{}, ValueKeys}}

\* tables as add_instrument and save_position leave them
InitRestoreTables ==
    \E names \in RestorePvsInputs, values \in RestoreValues :
        LET d1 == add_instrument(EmptyDB, <<"i">>, TRUE, names).db
            d2 == save_position(d1, <<"p">>, <<"i">>, values, NoNotes).db
        IN  /\ instrument = d2.instrument
            /\ pv = d2.pv
            /\ instrument_pv = d2.instrument_pv
            /\ position = d2.position
            /\ position_pv = d2.position_pv
            /\ pvs = connect_pvs(d2)
            /\ modify_date = "commit"
            /\ last = NoCall

InitRestore ==
    /\ InitRestoreTables
    /\ IdleVersion
    /\ IdleFiles
    /\ pc = "idle" /\ r_wait = FALSE /\ r_timeout = 0 /\ t0 = 0
    /\ now \in 0..MaxStart
    /\ ordered_pvs = <<>> /\ idx = 0 /\ work_pvs = <<>>
    /\ connected \in [pvs -> BOOLEAN]
    /\ put_complete \in [pvs -> BOOLEAN]
    /\ writes = <<>> /\ attempted = {} /\ polls = 0 /\ complete = FALSE
    /\ r_exc = "none"

\* lines 396-400: t0, ordered_pvs, work_pvs
Call ==
    \E posname \in PosNameInputs, instname \in InstNameInputs,
       wait \in BOOLEAN, timeout \in 0..MaxTimeout :
        LET g == get_ordered_position(DB, posname, instname, <<>>)
        IN  /\ pc = "idle"
            /\ r_wait' = wait
            /\ r_timeout' = timeout
            /\ t0' = now
            /\ ordered_pvs' = g.ret
            /\ r_exc' = g.exc
            /\ pc' = IF g.exc = "none" THEN "loop" ELSE "done"
            /\ idx' = 1
            /\ work_pvs' = <<>>
            /\ UNCHANGED <<now, connected, put_complete, writes, attempted,
                           polls, complete>>

\* the statement thispv.put(val, wait=False, use_complete=True) inside
\* try/except: val is bound neither in restore_position nor in the module, so
\* evaluating the argument raises NameError before put is entered, and the
\* bare except swallows it.  No write goes out, no flag is reset.
PutStatement(pvname, value) ==
    [writes |-> writes, put_complete |-> put_complete]

\* one pass of the loop "for pvname, value in ordered_pvs.items()"
LoopStep ==
    /\ pc = "loop"
    /\ idx <= Len(ordered_pvs)
    /\ LET pvname == ordered_pvs[idx].k
           value  == ordered_pvs[idx].v
       IN  IF pvname \notin pvs
           THEN \* self.pvs[pvname]
                /\ r_exc' = "KeyError"
                /\ pc' = "done"
                /\ UNCHANGED <<idx, work_pvs, connected, put_complete, writes,
                               attempted, now>>
           ELSE \E conn \in BOOLEAN, d \in {0, ConnTimeout} :
                \* wait_for_connection: returns at once when the connection
                \* comes, after the whole timeout when it does not
                /\ connected[pvname] => (conn /\ d = 0)
                /\ (~connected[pvname] /\ ~conn) => d = ConnTimeout
                /\ connected' = [connected EXCEPT ![pvname] = conn]
                /\ now' = now + d
                /\ IF conn
                   THEN LET p == PutStatement(pvname, value)
                        IN  /\ writes' = p.writes
                            /\ put_complete' = p.put_complete
                            /\ attempted' = attempted \cup {pvname}
                            /\ work_pvs' = IF r_wait THEN Append(work_pvs, pvname)
                                           ELSE work_pvs
                   ELSE UNCHANGED <<writes, put_complete, attempted, work_pvs>>
                /\ idx' = idx + 1
                /\ UNCHANGED <<pc, r_exc>>
    /\ UNCHANGED <<r_wait, r_timeout, t0, ordered_pvs, polls, complete>>

\* as AfterLoop below, but the for loop is left after its first pass
AfterLoopEarly ==
    /\ pc = "loop"
    /\ idx > 1
    /\ complete' = ~r_wait
    /\ pc' = IF r_wait THEN "poll" ELSE "done"
    /\ UNCHANGED <<r_wait, r_timeout, now, t0, ordered_pvs, idx, work_pvs,
                   connected, put_complete, writes, attempted, polls, r_exc>>

\* lines 414-416
AfterLoop ==
    /\ pc = "loop"
    /\ idx > Len(ordered_pvs)
    /\ complete' = ~r_wait
    /\ pc' = IF r_wait THEN "poll" ELSE "done"
    /\ UNCHANGED <<r_wait, r_timeout, now, t0, ordered_pvs, idx, work_pvs,
                   connected, put_complete, writes, attempted, polls, r_exc>>

\* as DeadlinePassed below, but the deadline is one sleep late
DeadlineLate(time, start, timeout) == time > start + timeout + 1

\* time.time() > (t0+timeout)
DeadlinePassed(time, start, timeout) == time > start + timeout

\* the value complete gets when the deadline ends the poll loop
CompleteAtDeadline == TRUE

\* one test of the while condition and, when it holds, one pass of the body
Poll ==
    /\ pc = "poll"
    /\ IF \A n \in 1..Len(work_pvs) : put_complete[work_pvs[n]]
       THEN /\ pc' = "done"
            /\ UNCHANGED <<now, polls, complete>>
       ELSE \E d \in 1..MaxSleep :
            /\ now' = now + d
            /\ polls' = polls + 1
            /\ IF DeadlinePassed(now', t0, r_timeout)
               THEN complete' = CompleteAtDeadline /\ pc' = "done"
               ELSE UNCHANGED <<complete, pc>>
    /\ UNCHANGED <<r_wait, r_timeout, t0, ordered_pvs, idx, work_pvs,
                   connected, put_complete, writes, attempted, r_exc>>

\* environment: the completion callback of an outstanding put arrives
PutCallback ==
    \E c \in DOMAIN put_complete :
        /\ pc \in {"loop", "poll"}
        /\ ~put_complete[c]
        /\ put_complete' = [put_complete EXCEPT ![c] = TRUE]
        /\ UNCHANGED <<pc, r_wait, r_timeout, now, t0, ordered_pvs, idx,
                       work_pvs, connected, writes, attempted, polls,
                       complete, r_exc>>

\* environment: a channel's connection is lost
Disconnect ==
    \E c \in DOMAIN connected :
        /\ pc = "loop"
        /\ connected[c]
        /\ connected' = [connected EXCEPT ![c] = FALSE]
        /\ UNCHANGED <<pc, r_wait, r_timeout, now, t0, ordered_pvs, idx,
                       work_pvs, put_complete, writes, attempted, polls,
                       complete, r_exc>>

RestoreStep == Call \/ LoopStep \/ AfterLoop \/ Poll

NextRestore ==
    \/ Call /\ UNCHANGED <<dbvars, vervars, fsvars>>
    \/ LoopStep /\ UNCHANGED <<dbvars, vervars, fsvars>>
    \/ AfterLoop /\ UNCHANGED <<dbvars, vervars, fsvars>>
    \/ Poll /\ UNCHANGED <<dbvars, vervars, fsvars>>
    \/ PutCallback /\ UNCHANGED <<dbvars, vervars, fsvars>>
    \/ Disconnect /\ UNCHANGED <<dbvars, vervars, fsvars>>

SpecRestore == InitRestore /\ [][NextRestore]_vars

\* the interpreter keeps running restore_position until it returns
FairRestore == SpecRestore /\ WF_vars(RestoreStep /\ UNCHANGED <<dbvars, vervars, fsvars>>)

(***************************************************************************)
(* Properties of restore_position.                                         *)
(***************************************************************************)
Returned == pc = "done" /\ r_exc = "none"
Tracked  == Range(work_pvs)
Targets  == Range(DictKeys(ordered_pvs))
WritesTo(c) == {n \in 1..Len(writes) : writes[n].pv = c}

\* C1: restore_position(wait=True, timeout=T) returns True when every target
\* channel was connected and all reported completion within T of the start of
\* the call, and returns False when the completion of some tracked channel
\* was not observed within T.
C1_WaitReturnsWhetherComplete ==
    (Returned /\ r_wait) =>
        /\ (/\ attempted = Targets
            /\ \A c \in Tracked : put_complete[c]
            /\ now <= t0 + r_timeout) => complete = TRUE
        /\ (\E c \in Tracked : ~put_complete[c]) => complete = FALSE

\* C2: when restore_position returns, every channel found connected has been
\* sent exactly one write, of its stored value, and no other channel any.
C2_OneWritePerConnectedChannel ==
    Returned =>
        /\ \A c \in attempted :
               /\ Cardinality(WritesTo(c)) = 1
               /\ \A n \in WritesTo(c) : writes[n].value = DictVal(ordered_pvs, c)
        /\ \A n \in 1..Len(writes) : writes[n].pv \in attempted

\* C10: a restore_position call that has started returns; a pass of the poll
\* loop that does not leave the loop ends within the timeout counted from the
\* start of the call; and with wait=False the call returns True without a
\* single pass of the poll loop.
C10_RestoreTerminates ==
    /\ (pc \in {"loop", "poll"}) ~> (pc = "done")
    /\ []((pc = "poll" /\ polls > 0) => now <= t0 + r_timeout)
    /\ []((Returned /\ ~r_wait) => (complete = TRUE /\ polls = 0))

\* the deadline ended the poll loop while a tracked channel was incomplete
C10_Witness ==
    /\ Returned /\ r_wait
    /\ polls > 0
    /\ \E c \in Tracked : ~put_complete[c]

\* a member channel of the instrument for which the position holds no value
Uncovered(posname, instname) ==
    LET pos == get_position(DB, strip(posname), instname)
    IN  \E m \in MemberRows(instname) :
            \A v \in position_pv : ~(v.position_id = pos.id /\ v.pv_id = m.pv_id)

\* C12: when the stored values of a position do not cover every member
\* channel of its instrument, restore_position raises and sends no write.
C12_UncoveredRestoreFails ==
    (pc = "done" /\ \E pi \in Pairs : Uncovered(pi[1], pi[2])) =>
        (r_exc # "none" /\ writes = <<>>)

\* the channels the for loop has been through
Visited == {ordered_pvs[n].k : n \in 1..(idx - 1)}

\* C15: restore_position raises only when the instrument or the position is
\* unknown, and then before the loop; a channel that is not connected after
\* the connection wait is skipped, the exception of a put is swallowed, and
\* in both cases the loop goes on: when it is over every member channel has
\* been visited, and every visited channel that is connected has had its put
\* statement reached.
C15_RestoreBestEffort ==
    /\ r_exc \in {"none", "InstrumentDBException"}
    /\ r_exc = "InstrumentDBException" =>
           (pc = "done" /\ ordered_pvs = <<>> /\ attempted = {})
    /\ (pc \in {"poll", "done"} /\ r_exc = "none") => Visited = Targets
    /\ pc # "idle" =>
           /\ attempted \subseteq Visited
           /\ \A c \in Visited : connected[c] => c \in attempted

\* the call returned after skipping its first channel, which stayed
\* disconnected, and reaching the put statement of its second
C15_Witness ==
    /\ Returned
    /\ Len(ordered_pvs) = 2
    /\ ordered_pvs[1].k \notin attempted
    /\ ordered_pvs[2].k \in attempted

\* C16: the put statements are reached in display order, one channel per pass
\* of the for loop, and the poll loop (the first read of a put_complete flag,
\* the first sleep) starts only when the for loop has been through the last
\* member channel.
C16_WritesBeforeFirstPoll ==
    [][/\ \A instname \in InstNameInputs :
              (Exists(instname) /\ pc # "idle" /\ r_exc = "none") =>
                  \A n, m \in 1..Len(ordered_pvs) : n < m =>
                      FirstOrder(instname, ordered_pvs[n].k)
                          < FirstOrder(instname, ordered_pvs[m].k)
       /\ attempted' # attempted =>
              /\ pc = "loop" /\ idx <= Len(ordered_pvs)
              /\ attempted' = attempted \cup {ordered_pvs[idx].k}
              /\ idx' = idx + 1
       /\ (pc' = "poll" \/ polls' # polls) => idx' = Len(ordered_pvs') + 1
       /\ polls' # polls => pc = "poll"
       /\ (pc = "poll" \/ polls > 0) => attempted' = attempted]_vars

\* the poll loop is running after the put statement of two channels was reached
C16_Witness ==
    /\ pc = "poll"
    /\ polls > 0
    /\ Cardinality(attempted) = 2
    /\ attempted = Targets

(***************************************************************************)
(* create_newdb: the backups of the database file.                         *)
(***************************************************************************)
\* make_newdb(dbname): a fresh database file at the path; n tells the files
\* made by successive calls apart
make_newdb(fs, n) == [fs EXCEPT ![0] = <<"new", n>>]

\* create_newdb(dbname) with connect=False
create_newdb(fs, n) == make_newdb(backup_versions(fs, BackupMax), n)

\* the files found at the start: any of the path and its BackupMax backups
InitFiles ==
    /\ InitTables
    /\ IdleVersion
    /\ IdleRestore
    /\ files \in {f \in [Suffixes -> {NoFile} \cup ({"old"} \X Suffixes)] :
                    /\ \A i \in Suffixes : f[i] \in {NoFile, <<"old", i>>}
                    /\ f[BackupMax + 1] = NoFile}
    /\ creates = 0

CreateNewdb ==
    /\ creates < MaxCreates
    /\ files' = create_newdb(files, creates + 1)
    /\ creates' = creates + 1

NextFiles == CreateNewdb /\ UNCHANGED <<dbvars, vervars, resvars>>

SpecFiles == InitFiles /\ [][NextFiles]_vars

StoredPvNames == {<<"a">>, A_VAL}

InitCache ==
    /\ IdleVersion
    /\ IdleRestore
    /\ IdleFiles
    /\ instrument = {}
    /\ \E name \in StoredPvNames :
           pv = {[id |-> 1, name |-> name], [id |-> 2, name |-> B_VAL]}
    /\ instrument_pv = {}
    /\ position = {}
    /\ position_pv = {}
    /\ pvs = connect_pvs([pv |-> pv])
    /\ modify_date = "create"
    /\ last = NoCall

\* get_pv(name)
GetPv ==
    \E name \in PvNameInputs \cup {A_VAL} :
        LET r == get_pv(DB, name)
        IN  /\ pv' = r.pv
            /\ last' = [NoCall EXCEPT !.op = "get_pv",
                                      !.ret = IF r.row.id = 0 THEN <<>>
                                              ELSE <<r.row>>]
            /\ UNCHANGED <<instrument, instrument_pv, position, position_pv,
                           pvs, modify_date>>

\* add_pv(name): it returns None or raises before self.pvs is assigned
AddPv ==
    \E name \in PvNameInputs \cup {A_VAL} :
        LET r == add_pv(DB, name)
        IN  /\ pv' = r.pv
            /\ last' = [NoCall EXCEPT !.op = "add_pv", !.exc = r.exc]
            /\ UNCHANGED <<instrument, instrument_pv, position, position_pv,
                           pvs, modify_date>>

NextCache ==
    \/ AddInstrument(NewInstNames) /\ UNCHANGED <<vervars, resvars, fsvars>>
    \/ GetPv /\ UNCHANGED <<vervars, resvars, fsvars>>
    \/ AddPv /\ UNCHANGED <<vervars, resvars, fsvars>>

SpecCache == InitCache /\ [][NextCache]_vars

\* C17: every channel that is a member of an instrument has a handle in
\* self.pvs under the name the pv table holds for it, so that the lookup
\* self.pvs[pvname] of restore_position finds it.
C17_MembersHaveHandles ==
    \A m \in instrument_pv : PvName(m.pv_id) \in pvs

====
